---- MODULE Spec2Model ----
(***************************************************************************)
(* Model of the ESP32 control-panel firmware in src/src/main.cpp: the      *)
(* globals of the sketch, the GPIO levels it drives, setup(), and loop()   *)
(* cut at the points where its effects become visible one by one (the two  *)
(* relay writes, the touch dispatch, the busy-wait drain).                 *)
(***************************************************************************)
EXTENDS Integers, Sequences, FiniteSets, TLC

VARIABLES
    sistemaEstado,      \* bool sistemaEstado      (touchOutputEnabled)
    pantallaEncendida,  \* bool pantallaEncendida  (displayAwake)
    btActivo,           \* bool btActivo           (wirelessEnabled)
    estadoRele,         \* bool estadoRele         (relayPhase)
    lastRelayMillis,    \* unsigned long lastRelayMillis
    lastTempMillis,     \* unsigned long lastTempMillis
    pinRele1,           \* level of PIN_RELE1 (TRUE = HIGH)
    pinRele2,           \* level of PIN_RELE2 (TRUE = HIGH)
    pinBL,              \* level of PIN_BL    (TRUE = HIGH)
    cpuMhz,             \* last setCpuFrequencyMhz argument
    btStarted,          \* SerialBT between begin() and end()
    tftOn,              \* display controller out of sleep (0x11 / 0x10)
    now,                \* millis()
    touch,              \* contact reported by tft.getTouch: NoTouch or <<x, y>>
    pc,                 \* position of the firmware in setup() / loop()
    lastAction,         \* action the current loop iteration dispatched
    firedInContact,     \* actions taken during the current contact (saturates)
    contacts,           \* contacts the panel has seen so far
    events,             \* what the step just taken wrote, drew or requested
    client,             \* SerialBT.hasClient()
    rxPending,          \* SerialBT.available(): a received line waits
    cb,                 \* position of btCallback on the Bluetooth task
    fsOk,               \* SPIFFS.begin(true) succeeded at this boot
    serialPending,      \* Serial.available() during touch_calibrate
    calExists,          \* SPIFFS holds /TouchCalData
    calSize,            \* its size in bytes (0 when absent)
    calib,              \* what touch_calibrate did at the last two boots
    btHist              \* btActivo before each of the last two toggleBluetooth()

vars == <<sistemaEstado, pantallaEncendida, btActivo, estadoRele,
          lastRelayMillis, lastTempMillis, pinRele1, pinRele2, pinBL, cpuMhz,
          btStarted, tftOn, now, touch, pc, lastAction, firedInContact,
          contacts, events, client, rxPending, cb, fsOk, serialPending,
          calExists, calSize, calib, btHist>>

btVars == <<client, rxPending, cb>>

calVars == <<fsOk, serialPending, calExists, calSize, calib>>

\* ------------------------------------------------------------------ bounds

\* millis() is explored up to this value.
MaxTime == 7000

\* firedInContact counts up to this value and then stays there.
MaxFired == 2

\* The user touches the panel at most this many times.
MaxContacts == 2

\* The calibration file found at boot has at most this many bytes.
MaxFileSize == 16

\* Around a wrap of millis(): the last firing is up to MaxBack seconds before
\* the wrap and the check comes up to MaxAhead seconds (and more) after it.
MaxBack == 4
MaxAhead == 4

\* Time that passes between loop iterations and between drain samples.
Deltas == {1000, 1999, 2999}

\* Touch coordinates the user may press: one inside each region, the corners
\* that lie just outside one, and one in the middle of the panel.
Points ==
    { <<200, 20>>, <<181, 40>>, <<60, 280>>, <<115, 280>>, <<177, 280>>,
      <<125, 251>>, <<120, 150>> }

\* Coordinates the router is applied to on its own: both sides of every edge.
GridXs == {5, 10, 11, 114, 115, 125, 126, 180, 181, 229, 230, 239}
GridYs == {0, 39, 40, 250, 251, 309, 310, 319}

NoTouch == <<>>

\* ------------------------------------------------------------------ geometry

btnY == 250
btnH == 60
btnW == 105
btn1X == 10
btn2X == 125

\* if (y < 40 && x > 180)
InBtRegion(x, y) == y < 40 /\ x > 180

\* InBtn1 with its right edge closed.
InBtn1Closed(x, y) == (x > btn1X) /\ (x <= (btn1X + btnW)) /\ (y > btnY) /\ (y < (btnY + btnH))

\* (x > btn1X) && (x < (btn1X + btnW)) && (y > btnY) && (y < (btnY + btnH))
InBtn1(x, y) == (x > btn1X) /\ (x < (btn1X + btnW)) /\ (y > btnY) /\ (y < (btnY + btnH))

\* InBtn2 with its left edge closed.
InBtn2Closed(x, y) == (x >= btn2X) /\ (x < (btn2X + btnW)) /\ (y > btnY) /\ (y < (btnY + btnH))

\* (x > btn2X) && (x < (btn2X + btnW)) && (y > btnY) && (y < (btnY + btnH))
InBtn2(x, y) == (x > btn2X) /\ (x < (btn2X + btnW)) /\ (y > btnY) /\ (y < (btnY + btnH))

Actions == {"NoAction", "ToggleWireless", "WakeDisplay", "ToggleOutput", "SleepDisplay"}

\* Resolve without the test of pantallaEncendida: the buttons as when awake.
ResolveNoSleepGate(x, y, awake) ==
    IF InBtRegion(x, y) THEN "ToggleWireless"
    ELSE IF InBtn1(x, y) THEN "ToggleOutput"
    ELSE IF InBtn2(x, y) THEN "SleepDisplay"
    ELSE "NoAction"

\* Resolve with the test of pantallaEncendida ahead of the Bluetooth corner.
ResolveSleepFirst(x, y, awake) ==
    IF ~awake
    THEN (IF InBtn2(x, y) THEN "WakeDisplay" ELSE "NoAction")
    ELSE IF InBtRegion(x, y) THEN "ToggleWireless"
    ELSE IF InBtn1(x, y) THEN "ToggleOutput"
    ELSE IF InBtn2(x, y) THEN "SleepDisplay"
    ELSE "NoAction"

\* The branch of loop() that a touch at (x, y) takes.
Resolve(x, y, awake) ==
    IF InBtRegion(x, y) THEN "ToggleWireless"
    ELSE IF ~awake
         THEN (IF InBtn2(x, y) THEN "WakeDisplay" ELSE "NoAction")
         ELSE (IF InBtn1(x, y) THEN "ToggleOutput"
               ELSE IF InBtn2(x, y) THEN "SleepDisplay"
               ELSE "NoAction")

\* ------------------------------------------------------------------ scheduler

\* unsigned long is 32 bits wide on the ESP32.  A 32-bit value is held as two
\* 16-bit words <<high, low>>; a time that is not truncated is held the same
\* way with an unbounded high part.
W16 == 65536

\* The 32-bit value of a small non-negative integer
ToWord(n) == <<(n \div W16) % W16, n % W16>>

\* millis() at the time t since boot: t truncated to 32 bits
Millis(t) == <<t[1] % W16, t[2]>>

\* a - b in unsigned 32-bit arithmetic
Sub32(a, b) ==
    LET lo == a[2] - b[2]
        hi == a[1] - b[1] - (IF lo < 0 THEN 1 ELSE 0)
    IN  <<(hi + W16) % W16, (lo + W16) % W16>>

\* a + b in unsigned 32-bit arithmetic
Add32(a, b) ==
    LET lo == a[2] + b[2]
        hi == a[1] + b[1] + (lo \div W16)
    IN  <<hi % W16, lo % W16>>

\* a >= b, unsigned
Geq32(a, b) == a[1] > b[1] \/ (a[1] = b[1] /\ a[2] >= b[2])

\* The test written as millis() >= last + interval.
DueByDeadline(nw, lw, interval) == Geq32(nw, Add32(lw, ToWord(interval)))

\* millis() - last >= interval, on unsigned long
Due32(nw, lw, interval) == Geq32(Sub32(nw, lw), ToWord(interval))

\* millis() - lastTempMillis >= 2000
TempDue(n, l) == Due32(ToWord(n), ToWord(l), 2000)

\* RelayDue with a strict comparison.
RelayDueStrict(n, l) == n - l > 3000

\* millis() - lastRelayMillis >= 3000
RelayDue(n, l) == Due32(ToWord(n), ToWord(l), 3000)

\* lastTempMillis = millis()
TempStamp(n, l) == n

\* RelayStamp that advances the old baseline by one interval.
RelayStampCatchUp(n, l) == l + 3000

\* lastRelayMillis = millis()
RelayStamp(n, l) == n

\* digitalWrite(PIN_RELE1, estadoRele)
Rele1Level(e) == e

\* Rele2Level without the negation.
Rele2LevelSame(e) == e

\* digitalWrite(PIN_RELE2, !estadoRele)
Rele2Level(e) == ~e

\* ------------------------------------------------------------------ outputs

\* RedrawIfAwake that draws whatever the power mode.
RedrawAlways(awake, w) == {<<"loop", w>>}

\* if (pantallaEncendida) <redraw w>
RedrawIfAwake(awake, w) == IF awake THEN {<<"loop", w>>} ELSE {}

\* EnviarReporteEstado that prints to SerialBT without asking hasClient().
EnviarReporteSinPreguntar(ctx, hasClient) == {<<ctx, "console">>, <<ctx, "wireless">>}

\* Serial.print(reporte); if (SerialBT.hasClient()) SerialBT.print(reporte);
\* run on the context ctx.
EnviarReporteEstado(ctx, hasClient) ==
    {<<ctx, "console">>} \cup (IF hasClient THEN {<<ctx, "wireless">>} ELSE {})

\* ------------------------------------------------------------------ wireless

\* ChannelAfterToggle that only ever begins.
ChannelNeverEnds(newBt) == TRUE

\* ChannelAfterToggle whose begin() has no effect.
ChannelNeverStarts(newBt) == FALSE

\* if (btActivo) SerialBT.begin(...) else SerialBT.end(): is the channel started
ChannelAfterToggle(newBt) == newBt

\* if (btActivo) setCpuFrequencyMhz(240)
CpuAfterToggle(newBt, cpu) == IF newBt THEN 240 ELSE cpu

\* ------------------------------------------------------------------ Init

\* The globals as initialised, the pins as the reset leaves them.
\* The last two entries of a sequence
LastTwo(h) == IF Len(h) > 2 THEN Tail(h) ELSE h

InitRam ==
    /\ sistemaEstado = FALSE
    /\ pantallaEncendida = TRUE
    /\ btActivo = FALSE
    /\ estadoRele = FALSE
    /\ lastRelayMillis = 0
    /\ lastTempMillis = 0
    /\ pinRele1 \in BOOLEAN
    /\ pinRele2 \in BOOLEAN
    /\ pinBL \in BOOLEAN
    /\ cpuMhz = 240
    /\ btStarted = FALSE
    /\ tftOn = TRUE
    /\ now = 0
    /\ touch = NoTouch
    /\ pc = "setup_rele1"
    /\ lastAction = "NoAction"
    /\ firedInContact = 0
    /\ contacts = 0
    /\ events = {}
    /\ client = FALSE
    /\ rxPending = FALSE
    /\ cb = "idle"
    /\ calib = <<>>
    /\ btHist = <<>>

\* A device on its first boot: the store mounts and holds no calibration file.
Init ==
    /\ InitRam
    /\ fsOk = TRUE
    /\ serialPending = FALSE
    /\ calExists = FALSE
    /\ calSize = 0

\* ------------------------------------------------------------------ setup()

\* setCpuFrequencyMhz(240); digitalWrite(PIN_RELE1, LOW)
SetupRele1 ==
    /\ pc = "setup_rele1"
    /\ cpuMhz' = 240
    /\ pinRele1' = FALSE
    /\ pc' = "setup_rele2"
    /\ UNCHANGED <<sistemaEstado, pantallaEncendida, btActivo, estadoRele,
                   lastRelayMillis, lastTempMillis, pinRele2, pinBL,
                   btStarted, tftOn, now, touch, lastAction, firedInContact, contacts>>
    /\ events' = {}
    /\ UNCHANGED btVars
    /\ UNCHANGED calVars
    /\ UNCHANGED btHist

\* digitalWrite(PIN_RELE2, HIGH)
SetupRele2 ==
    /\ pc = "setup_rele2"
    /\ pinRele2' = TRUE
    /\ pc' = "setup_cal"
    /\ UNCHANGED <<sistemaEstado, pantallaEncendida, btActivo, estadoRele,
                   lastRelayMillis, lastTempMillis, pinRele1, pinBL, cpuMhz,
                   btStarted, tftOn, now, touch, lastAction, firedInContact, contacts>>
    /\ events' = {}
    /\ UNCHANGED btVars
    /\ UNCHANGED calVars
    /\ UNCHANGED btHist

\* touch_calibrate() reads and writes 14 bytes ...
CalBytes == 14

\* ... through uint16_t calData[5], which holds 10.
CalDataBytes == 10

\* f.readBytes(buf, n): the number of bytes read from a file of this size
ReadBytes(size, n) == IF size < n THEN size ELSE n

\* A check that accepts any file that exists.
CalCheckAnySize(ok, exists, size) == IF ok /\ exists THEN {TRUE} ELSE {FALSE}

\* The values check can have after
\*   if (SPIFFS.exists(...)) { f = open; if (f) { if (f.readBytes(calData, 14) == 14) check = 1; } }
\* A read of 14 bytes assigns check = 1 afterwards.  A shorter read that still
\* passes the end of calData writes over the neighbouring stack, where check
\* may live: its value is then whatever the build's stack layout gives.
CalCheck(ok, exists, size) ==
    IF ~(ok /\ exists) THEN {FALSE}
    ELSE IF ReadBytes(size, CalBytes) = CalBytes THEN {TRUE}
    ELSE IF ReadBytes(size, CalBytes) > CalDataBytes THEN BOOLEAN
    ELSE {FALSE}

\* touch_calibrate(): load the stored blob, or calibrate and try to save.
SetupCalibrate ==
    /\ pc = "setup_cal"
    /\ \E check \in CalCheck(fsOk, calExists, calSize) :
         IF check /\ ~serialPending
         THEN /\ calib' = LastTwo(Append(calib, "loaded"))
              /\ events' = {}
              /\ UNCHANGED <<calExists, calSize>>
         ELSE /\ events' = {<<"loop", "draw_cal">>}
              /\ IF fsOk
                 THEN /\ calib' = LastTwo(Append(calib, "acquired_saved"))
                      /\ calExists' = TRUE
                      /\ calSize' = CalBytes
                 ELSE /\ calib' = LastTwo(Append(calib, "acquired_unsaved"))
                      /\ UNCHANGED <<calExists, calSize>>
    /\ pc' = "setup_ui"
    /\ UNCHANGED <<sistemaEstado, pantallaEncendida, btActivo, estadoRele,
                   lastRelayMillis, lastTempMillis, pinRele1, pinRele2, pinBL,
                   cpuMhz, btStarted, tftOn, now, touch, lastAction,
                   firedInContact, contacts, fsOk, serialPending>>
    /\ UNCHANGED btVars
    /\ UNCHANGED btHist

\* The rest of setup(): display init, drawing, digitalWrite(PIN_BL, LOW),
\* pantallaEncendida = true.
SetupUi ==
    /\ pc = "setup_ui"
    /\ pinBL' = FALSE
    /\ pantallaEncendida' = TRUE
    /\ pc' = "top"
    /\ UNCHANGED <<sistemaEstado, btActivo, estadoRele, lastRelayMillis,
                   lastTempMillis, pinRele1, pinRele2, cpuMhz, btStarted,
                   tftOn, now, touch, lastAction, firedInContact, contacts>>
    /\ events' = {<<"loop", "draw_ui">>}
    /\ UNCHANGED btVars
    /\ UNCHANGED calVars
    /\ UNCHANGED btHist

\* ------------------------------------------------------------------ loop()

\* if (btActivo && SerialBT.available()) ... : reads a line, prints it.
BtListen ==
    /\ pc = "top"
    /\ pc' = "sensor"
    /\ lastAction' = "NoAction"
    /\ UNCHANGED <<sistemaEstado, pantallaEncendida, btActivo, estadoRele,
                   lastRelayMillis, lastTempMillis, pinRele1, pinRele2, pinBL,
                   cpuMhz, btStarted, tftOn, now, touch, firedInContact, contacts>>
    /\ events' = IF btActivo /\ rxPending THEN {<<"loop", "rx">>} ELSE {}
    /\ rxPending' = IF btActivo /\ rxPending THEN FALSE ELSE rxPending
    /\ UNCHANGED <<client, cb>>
    /\ UNCHANGED calVars
    /\ UNCHANGED btHist

\* Sensores cada 2s
SensorTask ==
    /\ pc = "sensor"
    /\ lastTempMillis' = IF TempDue(now, lastTempMillis)
                         THEN TempStamp(now, lastTempMillis)
                         ELSE lastTempMillis
    /\ pc' = "relay"
    /\ UNCHANGED <<sistemaEstado, pantallaEncendida, btActivo, estadoRele,
                   lastRelayMillis, pinRele1, pinRele2, pinBL, cpuMhz,
                   btStarted, tftOn, now, touch, lastAction, firedInContact, contacts>>
    /\ events' = IF TempDue(now, lastTempMillis)
                 THEN {<<"loop", "conv">>}
                      \cup RedrawIfAwake(pantallaEncendida, "draw_temps")
                 ELSE {}
    /\ UNCHANGED btVars
    /\ UNCHANGED calVars
    /\ UNCHANGED btHist

\* Reles cada 3s: the test, lastRelayMillis = millis(), estadoRele = !estadoRele
RelayTask ==
    /\ pc = "relay"
    /\ IF RelayDue(now, lastRelayMillis)
       THEN /\ lastRelayMillis' = RelayStamp(now, lastRelayMillis)
            /\ estadoRele' = ~estadoRele
            /\ pc' = "relay_w1"
       ELSE /\ UNCHANGED <<lastRelayMillis, estadoRele>>
            /\ pc' = "touch"
    /\ UNCHANGED <<sistemaEstado, pantallaEncendida, btActivo, lastTempMillis,
                   pinRele1, pinRele2, pinBL, cpuMhz, btStarted, tftOn, now,
                   touch, lastAction, firedInContact, contacts>>
    /\ events' = {}
    /\ UNCHANGED btVars
    /\ UNCHANGED calVars
    /\ UNCHANGED btHist

\* digitalWrite(PIN_RELE1, estadoRele)
RelayWrite1 ==
    /\ pc = "relay_w1"
    /\ pinRele1' = Rele1Level(estadoRele)
    /\ pc' = "relay_w2"
    /\ UNCHANGED <<sistemaEstado, pantallaEncendida, btActivo, estadoRele,
                   lastRelayMillis, lastTempMillis, pinRele2, pinBL, cpuMhz,
                   btStarted, tftOn, now, touch, lastAction, firedInContact, contacts>>
    /\ events' = {}
    /\ UNCHANGED btVars
    /\ UNCHANGED calVars
    /\ UNCHANGED btHist

\* digitalWrite(PIN_RELE2, !estadoRele); redraw if pantallaEncendida
RelayWrite2 ==
    /\ pc = "relay_w2"
    /\ pinRele2' = Rele2Level(estadoRele)
    /\ pc' = "touch"
    /\ UNCHANGED <<sistemaEstado, pantallaEncendida, btActivo, estadoRele,
                   lastRelayMillis, lastTempMillis, pinRele1, pinBL, cpuMhz,
                   btStarted, tftOn, now, touch, lastAction, firedInContact, contacts>>
    /\ events' = RedrawIfAwake(pantallaEncendida, "draw_reles")
    /\ UNCHANGED btVars
    /\ UNCHANGED calVars
    /\ UNCHANGED btHist

Bump(n) == IF n < MaxFired THEN n + 1 ELSE n

\* tft.getTouch(&x, &y, 250) returns false: loop() returns.
TouchNone ==
    /\ pc = "touch"
    /\ touch = NoTouch
    /\ pc' = "top"
    /\ UNCHANGED <<sistemaEstado, pantallaEncendida, btActivo, estadoRele,
                   lastRelayMillis, lastTempMillis, pinRele1, pinRele2, pinBL,
                   cpuMhz, btStarted, tftOn, now, touch, lastAction,
                   firedInContact, contacts>>
    /\ events' = {}
    /\ UNCHANGED btVars
    /\ UNCHANGED calVars
    /\ UNCHANGED btHist

\* toggleBluetooth(); delay(300); return;
TouchToggleBT ==
    /\ pc = "touch"
    /\ touch # NoTouch
    /\ Resolve(touch[1], touch[2], pantallaEncendida) = "ToggleWireless"
    /\ now + 300 <= MaxTime
    /\ btActivo' = ~btActivo
    /\ btStarted' = ChannelAfterToggle(~btActivo)
    /\ cpuMhz' = CpuAfterToggle(~btActivo, cpuMhz)
    /\ now' = now + 300
    /\ pc' = "top"
    /\ lastAction' = "ToggleWireless"
    /\ firedInContact' = Bump(firedInContact)
    /\ UNCHANGED contacts
    /\ UNCHANGED <<sistemaEstado, pantallaEncendida, estadoRele,
                   lastRelayMillis, lastTempMillis, pinRele1, pinRele2, pinBL,
                   tftOn, touch>>
    /\ events' = RedrawIfAwake(pantallaEncendida, "draw_bt")
    /\ client' = IF btActivo THEN FALSE ELSE client
    /\ rxPending' = IF btActivo THEN FALSE ELSE rxPending
    /\ UNCHANGED cb
    /\ UNCHANGED calVars
    /\ btHist' = LastTwo(Append(btHist, btActivo))

\* A power transition that switches the touch output off.
OutputClearedByPower(estado) == FALSE

\* gestionarModoEnergia() has no assignment to sistemaEstado.
OutputAcrossPower(estado) == estado

\* gestionarModoEnergia(true); delay(300); then the drain loop
TouchWake ==
    /\ pc = "touch"
    /\ touch # NoTouch
    /\ Resolve(touch[1], touch[2], pantallaEncendida) = "WakeDisplay"
    /\ now + 120 + 300 <= MaxTime
    /\ cpuMhz' = 240
    /\ tftOn' = TRUE
    /\ pinBL' = FALSE
    /\ pantallaEncendida' = TRUE
    /\ now' = now + 120 + 300
    /\ pc' = "drain"
    /\ lastAction' = "WakeDisplay"
    /\ firedInContact' = Bump(firedInContact)
    /\ UNCHANGED contacts
    /\ sistemaEstado' = OutputAcrossPower(sistemaEstado)
    /\ UNCHANGED <<btActivo, estadoRele, lastRelayMillis,
                   lastTempMillis, pinRele1, pinRele2, btStarted, touch>>
    /\ events' = {<<"loop", "draw_ui">>}
    /\ UNCHANGED btVars
    /\ UNCHANGED calVars
    /\ UNCHANGED btHist

\* sistemaEstado = !sistemaEstado; redraw; enviarReporteEstado(); delay(350)
TouchOutput ==
    /\ pc = "touch"
    /\ touch # NoTouch
    /\ Resolve(touch[1], touch[2], pantallaEncendida) = "ToggleOutput"
    /\ now + 350 <= MaxTime
    /\ sistemaEstado' = ~sistemaEstado
    /\ now' = now + 350
    /\ pc' = "drain"
    /\ lastAction' = "ToggleOutput"
    /\ firedInContact' = Bump(firedInContact)
    /\ UNCHANGED contacts
    /\ UNCHANGED <<pantallaEncendida, btActivo, estadoRele, lastRelayMillis,
                   lastTempMillis, pinRele1, pinRele2, pinBL, cpuMhz,
                   btStarted, tftOn, touch>>
    /\ events' = {<<"loop", "draw_boton">>}
                 \cup EnviarReporteEstado("loop", client)
    /\ UNCHANGED btVars
    /\ UNCHANGED calVars
    /\ UNCHANGED btHist

\* gestionarModoEnergia(false); then the drain loop
TouchSleep ==
    /\ pc = "touch"
    /\ touch # NoTouch
    /\ Resolve(touch[1], touch[2], pantallaEncendida) = "SleepDisplay"
    /\ pinBL' = FALSE
    /\ tftOn' = FALSE
    /\ cpuMhz' = IF btActivo THEN 160 ELSE 80
    /\ pantallaEncendida' = FALSE
    /\ pc' = "drain"
    /\ lastAction' = "SleepDisplay"
    /\ firedInContact' = Bump(firedInContact)
    /\ UNCHANGED contacts
    /\ sistemaEstado' = OutputAcrossPower(sistemaEstado)
    /\ UNCHANGED <<btActivo, estadoRele, lastRelayMillis,
                   lastTempMillis, pinRele1, pinRele2, btStarted, now, touch>>
    /\ events' = {}
    /\ UNCHANGED btVars
    /\ UNCHANGED calVars
    /\ UNCHANGED btHist

\* A touch that matches no region: straight to the drain loop.
TouchNoAction ==
    /\ pc = "touch"
    /\ touch # NoTouch
    /\ Resolve(touch[1], touch[2], pantallaEncendida) = "NoAction"
    /\ pc' = "drain"
    /\ lastAction' = "NoAction"
    /\ UNCHANGED <<sistemaEstado, pantallaEncendida, btActivo, estadoRele,
                   lastRelayMillis, lastTempMillis, pinRele1, pinRele2, pinBL,
                   cpuMhz, btStarted, tftOn, now, touch, firedInContact, contacts>>
    /\ events' = {}
    /\ UNCHANGED btVars
    /\ UNCHANGED calVars
    /\ UNCHANGED btHist

\* while (tft.getTouch(&x, &y, 250)) ; -- one more sample with contact
DrainSample ==
    /\ pc = "drain"
    /\ touch # NoTouch
    /\ \E d \in Deltas :
         /\ now + d <= MaxTime
         /\ now' = now + d
    /\ UNCHANGED <<sistemaEstado, pantallaEncendida, btActivo, estadoRele,
                   lastRelayMillis, lastTempMillis, pinRele1, pinRele2, pinBL,
                   cpuMhz, btStarted, tftOn, touch, pc, lastAction,
                   firedInContact, contacts>>
    /\ events' = {}
    /\ UNCHANGED btVars
    /\ UNCHANGED calVars
    /\ UNCHANGED btHist

\* while (tft.getTouch(&x, &y, 250)) ; -- the sample without contact ends it
DrainExit ==
    /\ pc = "drain"
    /\ touch = NoTouch
    /\ pc' = "top"
    /\ UNCHANGED <<sistemaEstado, pantallaEncendida, btActivo, estadoRele,
                   lastRelayMillis, lastTempMillis, pinRele1, pinRele2, pinBL,
                   cpuMhz, btStarted, tftOn, now, touch, lastAction,
                   firedInContact, contacts>>
    /\ events' = {}
    /\ UNCHANGED btVars
    /\ UNCHANGED calVars
    /\ UNCHANGED btHist

\* ------------------------------------------------------------------ environment

\* A finger lands on the panel.
TouchDown ==
    /\ pc \notin {"setup_rele1", "setup_rele2", "setup_cal", "setup_ui"}
    /\ touch = NoTouch
    /\ contacts < MaxContacts
    /\ touch' \in Points
    /\ contacts' = contacts + 1
    /\ UNCHANGED <<sistemaEstado, pantallaEncendida, btActivo, estadoRele,
                   lastRelayMillis, lastTempMillis, pinRele1, pinRele2, pinBL,
                   cpuMhz, btStarted, tftOn, now, pc, lastAction,
                   firedInContact>>
    /\ events' = {}
    /\ UNCHANGED btVars
    /\ UNCHANGED calVars
    /\ UNCHANGED btHist

\* The finger is lifted.
Release ==
    /\ touch # NoTouch
    /\ touch' = NoTouch
    /\ firedInContact' = 0
    /\ UNCHANGED <<sistemaEstado, pantallaEncendida, btActivo, estadoRele,
                   lastRelayMillis, lastTempMillis, pinRele1, pinRele2, pinBL,
                   cpuMhz, btStarted, tftOn, now, pc, lastAction, contacts>>
    /\ events' = {}
    /\ UNCHANGED btVars
    /\ UNCHANGED calVars
    /\ UNCHANGED btHist

\* Time passes between two loop iterations.
Elapse ==
    /\ pc = "top"
    /\ \E d \in Deltas :
         /\ now + d <= MaxTime
         /\ now' = now + d
    /\ UNCHANGED <<sistemaEstado, pantallaEncendida, btActivo, estadoRele,
                   lastRelayMillis, lastTempMillis, pinRele1, pinRele2, pinBL,
                   cpuMhz, btStarted, tftOn, touch, pc, lastAction,
                   firedInContact, contacts>>
    /\ events' = {}
    /\ UNCHANGED btVars
    /\ UNCHANGED calVars
    /\ UNCHANGED btHist

\* The Bluetooth stack delivers ESP_SPP_SRV_OPEN_EVT: a client has connected
\* and btCallback starts on the Bluetooth task: Serial.println, delay(200).
BtCallback ==
    /\ btStarted
    /\ ~client
    /\ cb = "idle"
    /\ client' = TRUE
    /\ cb' = "settle"
    /\ events' = {<<"callback", "log">>}
    /\ UNCHANGED <<sistemaEstado, pantallaEncendida, btActivo, estadoRele,
                   lastRelayMillis, lastTempMillis, pinRele1, pinRele2, pinBL,
                   cpuMhz, btStarted, tftOn, now, touch, pc, lastAction,
                   firedInContact, contacts, rxPending>>
    /\ UNCHANGED calVars
    /\ UNCHANGED btHist

\* A callback that only notes the connection.
CallbackSilent(hasClient) == {}

\* What btCallback does after its delay: enviarReporteEstado();
CallbackOutput(hasClient) == EnviarReporteEstado("callback", hasClient)

\* btCallback after its delay: enviarReporteEstado() on the Bluetooth task.
CbReport ==
    /\ cb = "settle"
    /\ cb' = "idle"
    /\ events' = CallbackOutput(client)
    /\ UNCHANGED <<sistemaEstado, pantallaEncendida, btActivo, estadoRele,
                   lastRelayMillis, lastTempMillis, pinRele1, pinRele2, pinBL,
                   cpuMhz, btStarted, tftOn, now, touch, pc, lastAction,
                   firedInContact, contacts, client, rxPending>>
    /\ UNCHANGED calVars
    /\ UNCHANGED btHist

\* The client goes away.
BtDisconnect ==
    /\ client
    /\ client' = FALSE
    /\ events' = {}
    /\ UNCHANGED <<sistemaEstado, pantallaEncendida, btActivo, estadoRele,
                   lastRelayMillis, lastTempMillis, pinRele1, pinRele2, pinBL,
                   cpuMhz, btStarted, tftOn, now, touch, pc, lastAction,
                   firedInContact, contacts, rxPending, cb>>
    /\ UNCHANGED calVars
    /\ UNCHANGED btHist

\* The client sends a line.
BtReceive ==
    /\ client
    /\ ~rxPending
    /\ rxPending' = TRUE
    /\ events' = {}
    /\ UNCHANGED <<sistemaEstado, pantallaEncendida, btActivo, estadoRele,
                   lastRelayMillis, lastTempMillis, pinRele1, pinRele2, pinBL,
                   cpuMhz, btStarted, tftOn, now, touch, pc, lastAction,
                   firedInContact, contacts, client, cb>>
    /\ UNCHANGED calVars
    /\ UNCHANGED btHist

\* ------------------------------------------------------------------ specification

Firmware ==
    \/ SetupRele1 \/ SetupRele2 \/ SetupCalibrate \/ SetupUi
    \/ BtListen \/ SensorTask \/ RelayTask \/ RelayWrite1 \/ RelayWrite2
    \/ TouchNone \/ TouchToggleBT \/ TouchWake \/ TouchOutput \/ TouchSleep
    \/ TouchNoAction \/ DrainExit

Next ==
    \/ SetupRele1 \/ SetupRele2 \/ SetupCalibrate \/ SetupUi
    \/ BtListen \/ SensorTask \/ RelayTask \/ RelayWrite1 \/ RelayWrite2
    \/ TouchNone \/ TouchToggleBT \/ TouchWake \/ TouchOutput \/ TouchSleep
    \/ TouchNoAction \/ DrainSample \/ DrainExit
    \/ TouchDown \/ Release \/ Elapse

Spec == Init /\ [][Next]_vars

\* The firmware keeps running: a step of setup() or loop() that can be taken is
\* taken.  Nothing obliges the user to lift the finger or time to be sampled.
FairSpec == Init /\ [][Next]_vars /\ WF_vars(Firmware)

\* Power cycle or reset: RAM and outputs start over, the store keeps its file.
\* The store may or may not mount this time, and the console may or may not
\* have sent something before touch_calibrate() runs.
Reboot ==
    /\ pc = "top"
    /\ sistemaEstado' = FALSE
    /\ pantallaEncendida' = TRUE
    /\ btActivo' = FALSE
    /\ estadoRele' = FALSE
    /\ lastRelayMillis' = 0
    /\ lastTempMillis' = 0
    /\ pinRele1' \in BOOLEAN
    /\ pinRele2' \in BOOLEAN
    /\ pinBL' \in BOOLEAN
    /\ cpuMhz' = 240
    /\ btStarted' = FALSE
    /\ tftOn' = TRUE
    /\ now' = 0
    /\ touch' = NoTouch
    /\ pc' = "setup_rele1"
    /\ lastAction' = "NoAction"
    /\ firedInContact' = 0
    /\ contacts' = 0
    /\ events' = {}
    /\ client' = FALSE
    /\ rxPending' = FALSE
    /\ cb' = "idle"
    /\ btHist' = <<>>
    /\ fsOk' \in BOOLEAN
    /\ serialPending' \in BOOLEAN
    /\ UNCHANGED <<calExists, calSize, calib>>

\* Any boot: any file may be in the store from earlier use.
BootInit ==
    /\ InitRam
    /\ fsOk \in BOOLEAN
    /\ serialPending \in BOOLEAN
    /\ calExists \in BOOLEAN
    /\ calSize \in (IF calExists THEN 0..MaxFileSize ELSE {0})

BootNext ==
    \/ SetupRele1 \/ SetupRele2 \/ SetupCalibrate \/ SetupUi
    \/ Reboot

BootSpec == BootInit /\ [][BootNext]_vars

\* The two elapsed-time tests of loop() around a wrap of millis().  now is the
\* time since boot, not truncated; both tasks last fired at the same moment
\* of the first 2^32 ms, so lastTempMillis and lastRelayMillis are that
\* moment; loop() sees Millis(now).
LastSamples ==
    {<<0, 0>>, <<0, 1>>, <<32768, 0>>, <<65535, 65535>>}
    \cup {<<65535, W16 - j * 1000>> : j \in 1..MaxBack}

ElapsedSamples ==
    {<<0, a * 1000 + b>> : a \in 0..MaxAhead, b \in {0, 999}}
    \cup {<<0, 1>>, <<0, 65535>>, <<1, 0>>, <<32768, 0>>, <<65535, 65535>>}

\* a + b, not truncated
WideAdd(a, b) ==
    LET lo == a[2] + b[2]
    IN  <<a[1] + b[1] + (lo \div W16), lo % W16>>

\* a - b for a >= b, not truncated
WideSub(a, b) ==
    LET lo == a[2] - b[2]
    IN  <<a[1] - b[1] - (IF lo < 0 THEN 1 ELSE 0), (lo + W16) % W16>>

WrapInit ==
    /\ sistemaEstado = FALSE
    /\ pantallaEncendida \in BOOLEAN
    /\ btActivo = FALSE
    /\ estadoRele = FALSE
    /\ lastTempMillis \in LastSamples
    /\ lastRelayMillis = lastTempMillis
    /\ now \in {WideAdd(lastTempMillis, e) : e \in ElapsedSamples}
    /\ pinRele1 = FALSE
    /\ pinRele2 = TRUE
    /\ pinBL = FALSE
    /\ cpuMhz = IF pantallaEncendida THEN 240 ELSE 80
    /\ btStarted = FALSE
    /\ tftOn = pantallaEncendida
    /\ touch = NoTouch
    /\ pc = "sensor"
    /\ lastAction = "NoAction"
    /\ firedInContact = 0
    /\ contacts = 0
    /\ events = {}
    /\ client = FALSE
    /\ rxPending = FALSE
    /\ cb = "idle"
    /\ fsOk = TRUE
    /\ serialPending = FALSE
    /\ calExists = TRUE
    /\ calSize = CalBytes
    /\ calib = <<"loaded">>
    /\ btHist = <<>>

\* if (millis() - lastTempMillis >= 2000) { lastTempMillis = millis(); ... }
WrapSensorTask ==
    /\ pc = "sensor"
    /\ IF Due32(Millis(now), lastTempMillis, 2000)
       THEN /\ lastTempMillis' = Millis(now)
            /\ events' = {<<"loop", "conv">>}
                         \cup RedrawIfAwake(pantallaEncendida, "draw_temps")
       ELSE /\ UNCHANGED lastTempMillis
            /\ events' = {}
    /\ pc' = "relay"
    /\ UNCHANGED <<sistemaEstado, pantallaEncendida, btActivo, estadoRele,
                   lastRelayMillis, pinRele1, pinRele2, pinBL, cpuMhz,
                   btStarted, tftOn, now, touch, lastAction, firedInContact,
                   contacts>>
    /\ UNCHANGED btVars
    /\ UNCHANGED calVars
    /\ UNCHANGED btHist

\* if (millis() - lastRelayMillis >= 3000) { lastRelayMillis = millis();
\*   estadoRele = !estadoRele; ... }
WrapRelayTask ==
    /\ pc = "relay"
    /\ IF Due32(Millis(now), lastRelayMillis, 3000)
       THEN /\ lastRelayMillis' = Millis(now)
            /\ estadoRele' = ~estadoRele
            /\ pc' = "relay_w1"
       ELSE /\ UNCHANGED <<lastRelayMillis, estadoRele>>
            /\ pc' = "touch"
    /\ UNCHANGED <<sistemaEstado, pantallaEncendida, btActivo, lastTempMillis,
                   pinRele1, pinRele2, pinBL, cpuMhz, btStarted, tftOn, now,
                   touch, lastAction, firedInContact, contacts>>
    /\ events' = {}
    /\ UNCHANGED btVars
    /\ UNCHANGED calVars
    /\ UNCHANGED btHist

WrapNext ==
    \/ WrapSensorTask \/ WrapRelayTask
    \/ RelayWrite1 \/ RelayWrite2

WrapSpec == WrapInit /\ [][WrapNext]_vars

\* The firmware with a Bluetooth client coming and going.  The Bluetooth task
\* runs beside loop(): a callback that has started its delay(200) finishes it
\* whatever loop() is doing.
WirelessNext ==
    \/ Firmware
    \/ TouchDown \/ Release
    \/ BtCallback \/ CbReport \/ BtDisconnect \/ BtReceive

WirelessSpec ==
    Init /\ [][WirelessNext]_vars /\ WF_vars(Firmware) /\ WF_vars(CbReport)

\* The touch dispatch on its own: loop() has reached tft.getTouch with a contact
\* anywhere on the grid, in any power mode and wireless state.
RouterInit ==
    /\ sistemaEstado \in BOOLEAN
    /\ pantallaEncendida \in BOOLEAN
    /\ btActivo \in BOOLEAN
    /\ estadoRele = FALSE
    /\ lastRelayMillis = 0
    /\ lastTempMillis = 0
    /\ pinRele1 = FALSE
    /\ pinRele2 = TRUE
    /\ pinBL = FALSE
    /\ cpuMhz = IF pantallaEncendida THEN 240 ELSE IF btActivo THEN 160 ELSE 80
    /\ btStarted = btActivo
    /\ tftOn = pantallaEncendida
    /\ now = 1000
    /\ touch \in GridXs \X GridYs
    /\ pc = "touch"
    /\ lastAction = "NoAction"
    /\ firedInContact = 0
    /\ contacts = 1
    /\ events = {}
    /\ client = FALSE
    /\ rxPending = FALSE
    /\ cb = "idle"
    /\ fsOk = TRUE
    /\ serialPending = FALSE
    /\ calExists = TRUE
    /\ calSize = CalBytes
    /\ calib = <<"loaded">>
    /\ btHist = <<>>

RouterNext ==
    \/ TouchToggleBT \/ TouchWake \/ TouchOutput \/ TouchSleep \/ TouchNoAction

RouterSpec == RouterInit /\ [][RouterNext]_vars

\* ------------------------------------------------------------------ properties

SetupPcs == {"setup_rele1", "setup_rele2", "setup_cal", "setup_ui"}

\* A step that dispatches the contact the panel reports.
Dispatching == pc = "touch" /\ touch # NoTouch /\ pc' # "touch"

TableAction(x, y, awake) ==
    IF y < 40 /\ x > 180 THEN "ToggleWireless"
    ELSE IF ~awake
         THEN (IF 125 < x /\ x < 230 /\ 250 < y /\ y < 310
               THEN "WakeDisplay" ELSE "NoAction")
         ELSE (IF 10 < x /\ x < 115 /\ 250 < y /\ y < 310 THEN "ToggleOutput"
               ELSE IF 125 < x /\ x < 230 /\ 250 < y /\ y < 310 THEN "SleepDisplay"
               ELSE "NoAction")

\* What one dispatched action, and no other, does to the three flags.
EffectOf(a) ==
    /\ (btActivo' # btActivo) <=> (a = "ToggleWireless")
    /\ (sistemaEstado' # sistemaEstado) <=> (a = "ToggleOutput")
    /\ (pantallaEncendida' # pantallaEncendida) <=> (a \in {"WakeDisplay", "SleepDisplay"})
    /\ (a = "WakeDisplay") => pantallaEncendida'
    /\ (a = "SleepDisplay") => ~pantallaEncendida'

\* C2: every dispatch, for every coordinate, power mode and wireless state, takes
\* exactly the action the first-match-wins table gives, and has the effect of
\* that one action only.
RouterMatchesTable ==
    [][Dispatching =>
          /\ lastAction' = TableAction(touch[1], touch[2], pantallaEncendida)
          /\ EffectOf(lastAction')]_vars

\* C2 witness: a touch just inside the wake button, taken while asleep, woke
\* the display (and did not put it to sleep again).
WakeDispatched ==
    /\ pc = "drain" /\ lastAction = "WakeDisplay" /\ pantallaEncendida
    /\ touch = <<126, 251>>

\* C3, as claimed: one continuous contact fires at most one action.
OneActionPerContact == firedInContact <= 1

\* C4, as claimed: while asleep, a touch outside the wake button changes no
\* flag and starts or stops no collaborator.
AsleepOnlyWakeActs ==
    [][(Dispatching /\ ~pantallaEncendida
          /\ ~(125 < touch[1] /\ touch[1] < 230 /\ 250 < touch[2] /\ touch[2] < 310))
        => UNCHANGED <<sistemaEstado, pantallaEncendida, btActivo, estadoRele,
                       btStarted, tftOn, pinBL, cpuMhz>>]_vars

\* C4, amended: while asleep, a touch outside the wake button and outside the
\* top-right wireless corner changes no flag and starts or stops no
\* collaborator.
AsleepOnlyWakeAndWirelessAct ==
    [][(Dispatching /\ ~pantallaEncendida
          /\ ~(125 < touch[1] /\ touch[1] < 230 /\ 250 < touch[2] /\ touch[2] < 310)
          /\ ~(touch[2] < 40 /\ touch[1] > 180))
        => UNCHANGED <<sistemaEstado, pantallaEncendida, btActivo, estadoRele,
                       btStarted, tftOn, pinBL, cpuMhz>>]_vars

\* C4 witness: a touch on the left button was dispatched while asleep.
AsleepTouchIgnored ==
    /\ pc = "drain" /\ ~pantallaEncendida /\ lastAction = "NoAction"
    /\ touch = <<60, 280>>

\* C5: a touch in the top-right corner while asleep flips btActivo, starts or
\* stops SerialBT accordingly, and leaves the display asleep.
AsleepWirelessToggles ==
    [][(Dispatching /\ ~pantallaEncendida /\ touch[2] < 40 /\ touch[1] > 180)
        => /\ btActivo' = ~btActivo
           /\ btStarted' = btActivo'
           /\ ~pantallaEncendida' /\ ~tftOn']_vars

\* C5 witness: the wireless channel was switched on with the display asleep.
AsleepWirelessOn ==
    /\ pc = "top" /\ lastAction = "ToggleWireless" /\ ~pantallaEncendida
    /\ btActivo /\ btStarted

\* C6, as claimed: while awake, a touch outside both buttons takes no action
\* and changes no flag.
AwakeOutsideButtonsNoAction ==
    [][(Dispatching /\ pantallaEncendida
          /\ ~(10 < touch[1] /\ touch[1] < 115 /\ 250 < touch[2] /\ touch[2] < 310)
          /\ ~(125 < touch[1] /\ touch[1] < 230 /\ 250 < touch[2] /\ touch[2] < 310))
        => /\ lastAction' = "NoAction"
           /\ UNCHANGED <<sistemaEstado, pantallaEncendida, btActivo, estadoRele>>]_vars

\* C6, amended: while awake, a touch outside both buttons and outside the
\* top-right wireless corner takes no action and changes no flag.
AwakeOutsideRegionsNoAction ==
    [][(Dispatching /\ pantallaEncendida
          /\ ~(10 < touch[1] /\ touch[1] < 115 /\ 250 < touch[2] /\ touch[2] < 310)
          /\ ~(125 < touch[1] /\ touch[1] < 230 /\ 250 < touch[2] /\ touch[2] < 310)
          /\ ~(touch[2] < 40 /\ touch[1] > 180))
        => /\ lastAction' = "NoAction"
           /\ UNCHANGED <<sistemaEstado, pantallaEncendida, btActivo, estadoRele>>]_vars

\* C6 witness: a touch on the edge between the buttons was dispatched awake.
AwakeTouchIgnored ==
    /\ pc = "drain" /\ pantallaEncendida /\ lastAction = "NoAction"
    /\ touch = <<115, 280>>

\* C7, as claimed: a loop iteration that has reached the drain loop ends.
DrainTerminates == (pc = "drain") ~> (pc = "top")

\* C8: the relay task acts exactly when 3000 ms or more have passed since
\* lastRelayMillis, and then inverts estadoRele once; the sensor task acts
\* exactly when 2000 ms or more have passed since lastTempMillis; nothing else
\* touches estadoRele or the two timestamps.
TasksFireOnInterval ==
    [][/\ (pc = "relay" /\ pc' # "relay")
             => IF now - lastRelayMillis >= 3000
                THEN estadoRele' = ~estadoRele /\ lastRelayMillis' = now
                ELSE UNCHANGED <<estadoRele, lastRelayMillis>>
       /\ (pc = "sensor" /\ pc' # "sensor")
             => IF now - lastTempMillis >= 2000
                THEN lastTempMillis' = now
                ELSE UNCHANGED lastTempMillis
       /\ pc # "relay" => UNCHANGED <<estadoRele, lastRelayMillis>>
       /\ pc # "sensor" => UNCHANGED lastTempMillis]_vars

\* C8 witness: the relay fired at 3000 ms and the check 2999 ms later did not.
RelayCheckAt2999 ==
    pc = "touch" /\ lastRelayMillis = 3000 /\ now = 5999 /\ estadoRele

\* C9: a task that runs late fires once, takes the current time as its new
\* baseline, is then not due again, and leaves the other task's timestamp
\* alone.
NoCatchUp ==
    [][/\ (pc = "relay" /\ pc' # "relay" /\ now - lastRelayMillis >= 3000)
             => /\ lastRelayMillis' = now'
                /\ now' - lastRelayMillis' < 3000
                /\ lastTempMillis' = lastTempMillis
       /\ (pc = "sensor" /\ pc' # "sensor" /\ now - lastTempMillis >= 2000)
             => /\ lastTempMillis' = now'
                /\ now' - lastTempMillis' < 2000
                /\ lastRelayMillis' = lastRelayMillis]_vars

\* C9 witness: the first relay check came two intervals late and fired once.
RelayFiredLate ==
    pc = "relay_w1" /\ now = 6000 /\ lastRelayMillis = 6000 /\ estadoRele

\* C10, as claimed: outside setup() the backlight level and pantallaEncendida
\* change together, so that for either wiring of the backlight it is on
\* exactly when the display is awake.
BacklightFollowsDisplay ==
    [][(pc \notin SetupPcs /\ pc' \notin SetupPcs)
        => ((pinBL' # pinBL) <=> (pantallaEncendida' # pantallaEncendida))]_vars

ToggledTwice == lastAction = "ToggleWireless" /\ Len(btHist) = 2

\* C12 as stated: after two ToggleWireless actions btActivo has its original
\* value and the Bluetooth channel is stopped.
DoubleToggleStopsChannel ==
    ToggledTwice => (btActivo = btHist[1] /\ ~btStarted)

\* C12: after two ToggleWireless actions btActivo has its original value and
\* the Bluetooth channel is in its original condition too: started if
\* wireless was enabled before the two toggles, stopped if it was not.
DoubleToggleRestoresChannel ==
    ToggledTwice => (btActivo = btHist[1] /\ btStarted = btHist[1])

\* Two toggles that began with wireless enabled: the channel runs again.
DoubleToggleFromEnabled ==
    ToggledTwice /\ btHist[1] /\ btStarted

\* C13: btCallback, on the Bluetooth task, only records a request: no step
\* taken on the callback's context writes a report to the console or to the
\* wireless sink.
CallbackEmitsNoReport ==
    \A e \in events : ~(e[1] = "callback" /\ e[2] \in {"console", "wireless"})

\* C14: every connection of a client (btCallback entered, cb = "settle") is
\* eventually followed by a report written from the callback, whatever loop()
\* is doing.
ConnectionLeadsToReport ==
    (cb = "settle") ~> (<<"callback", "console">> \in events)

\* The report of a connection goes out while the display sleeps and a finger
\* is held on the panel, loop() waiting in the drain loop.
ReportWhileAsleepAndHeld ==
    /\ <<"callback", "console">> \in events
    /\ ~pantallaEncendida
    /\ touch # NoTouch
    /\ pc = "drain"

\* C15: a report goes to the console whenever it goes anywhere, and to the
\* wireless sink exactly when a client is connected; loop() emits a report on
\* the ToggleOutput step (the one that redraws the button) and on no other.
ReportSinksFollowClient ==
    /\ \A ctx \in {"loop", "callback"} :
         /\ <<ctx, "wireless">> \in events
              => (<<ctx, "console">> \in events /\ client)
         /\ (<<ctx, "console">> \in events /\ client)
              => <<ctx, "wireless">> \in events
    /\ <<"loop", "console">> \in events
         <=> (lastAction = "ToggleOutput" /\ <<"loop", "draw_boton">> \in events)

\* ToggleOutput with a client connected: the report went to both sinks.
OutputToggledWithClient ==
    /\ lastAction = "ToggleOutput"
    /\ client
    /\ <<"loop", "wireless">> \in events

\* ToggleOutput with no client: the report went to the console alone.
OutputToggledWithoutClient ==
    /\ lastAction = "ToggleOutput"
    /\ ~client
    /\ <<"loop", "console">> \in events
    /\ <<"loop", "wireless">> \notin events

\* A stored blob of exactly 14 bytes in a store that mounted.
ValidBlob == fsOk /\ calExists /\ calSize = 14

\* What touch_calibrate did at this boot
CalibNow == calib[Len(calib)]

DrawKinds ==
    {"draw_ui", "draw_cal", "draw_temps", "draw_reles", "draw_bt", "draw_boton"}

\* C17: a step that ends with the display asleep has drawn nothing, while the
\* sensor task, when due, still requests a conversion and the relay task,
\* when due, still inverts estadoRele and then writes both outputs (a step of
\* loop() is one that moves pc).
NoRenderingWhileAsleep ==
    [][ /\ ~pantallaEncendida' => (\A e \in events' : e[2] \notin DrawKinds)
        /\ (pc = "sensor" /\ pc' # pc /\ now - lastTempMillis >= 2000)
             => <<"loop", "conv">> \in events'
        /\ (pc = "relay" /\ pc' # pc /\ now - lastRelayMillis >= 3000)
             => (estadoRele' = ~estadoRele /\ pc' = "relay_w1")
        /\ (pc = "relay_w1" /\ pc' # pc)
             => (pinRele1' = estadoRele /\ pc' = "relay_w2")
        /\ (pc = "relay_w2" /\ pc' # pc)
             => pinRele2' = ~estadoRele ]_vars

\* The relay task has fired with the display asleep: outputs written, no
\* redraw.
RelayFiredAsleep ==
    /\ ~pantallaEncendida
    /\ pc = "touch"
    /\ lastRelayMillis = now
    /\ now > 0
    /\ events = {}
    /\ pinRele1 = estadoRele
    /\ pinRele2 = ~estadoRele

\* C18: the CPU clock is 240 MHz while the display is awake, 160 MHz asleep
\* with wireless enabled, 80 MHz asleep with wireless disabled.
CpuFollowsPowerAndWireless ==
    cpuMhz = IF pantallaEncendida THEN 240 ELSE IF btActivo THEN 160 ELSE 80

\* C19: the Bluetooth channel is started exactly when btActivo is true, and
\* loop() reads received input only while btActivo is true.
ChannelFollowsFlag ==
    /\ btStarted = btActivo
    /\ <<"loop", "rx">> \in events => btActivo

\* loop() has just read a line the client sent, after a sleep or a wake.
InputReadWhileEnabled ==
    /\ <<"loop", "rx">> \in events
    /\ btActivo
    /\ btStarted

\* a >= b for times that are not truncated
WideGeq(a, b) == a[1] > b[1] \/ (a[1] = b[1] /\ a[2] >= b[2])

\* C20: with a true elapsed time below 2^32 ms, the sensor task fires exactly
\* when at least 2000 ms have truly passed since it last fired, and the relay
\* task exactly when at least 3000 ms have, whether or not millis() has
\* wrapped in between.
ElapsedTestSurvivesWrap ==
    [][ /\ (pc = "sensor" /\ WideSub(now, lastTempMillis)[1] < 65536)
             => (<<"loop", "conv">> \in events'
                   <=> WideGeq(WideSub(now, lastTempMillis), <<0, 2000>>))
        /\ (pc = "relay" /\ WideSub(now, lastRelayMillis)[1] < 65536)
             => (estadoRele' # estadoRele
                   <=> WideGeq(WideSub(now, lastRelayMillis), <<0, 3000>>)) ]_vars

\* The relay task fired 3000 ms after a firing 1000 ms before the wrap:
\* millis() is 2000, lastRelayMillis was 2^32 - 1000.
RelayFiredAcrossWrap ==
    /\ pc = "relay_w1"
    /\ now = <<65536, 2000>>
    /\ lastRelayMillis = <<0, 2000>>
    /\ estadoRele

====
